---- MODULE Spec2Model ----
(***************************************************************************)
(* Model of the section-addressed markdown buffer of the Readwise plugin   *)
(* (src/lib/amplenote_rw.js, src/lib/markdown.js).                         *)
(*                                                                         *)
(* Text is a sequence of one-character strings.  Offsets are the 0-based   *)
(* offsets of JavaScript strings; Slice converts to 1-based sequences.     *)
(* A value the source binds once and uses several times is passed on as a  *)
(* parameter of the definition that continues the function.                *)
(***************************************************************************)
EXTENDS Integers, Sequences, FiniteSets, TLC

(***************************************************************************)
(* JavaScript string primitives                                            *)
(***************************************************************************)
NL == "\n"

\* null, as returned for startIndex/endIndex; real offsets are >= 0
Null == -1

\* \s restricted to the characters of the model's alphabet
IsSpace(c) == c \in {" ", NL}

Min(a, b) == IF a < b THEN a ELSE b

\* ToIntegerOrInfinity applied to a slice argument: null converts to 0
ToIndex(x) == IF x = Null THEN 0 ELSE x

\* s.slice(a, b) for offsets already clamped to the length of s
SliceClamped(s, a, b) == IF a >= b THEN <<>> ELSE SubSeq(s, a + 1, b)

\* String.prototype.slice(start, end) for non-negative or null arguments
Slice(s, start, end) ==
  SliceClamped(s, Min(ToIndex(start), Len(s)), Min(ToIndex(end), Len(s)))

\* s.slice(start): to the end of the string
SliceFrom(s, start) == Slice(s, start, Len(s))

\* JavaScript truthiness of a number-or-null
Truthy(x) == x # Null /\ x # 0

\* the number of # characters from offset i on
RECURSIVE CountHashes(_, _)
CountHashes(s, i) ==
  IF i < Len(s) /\ s[i + 1] = "#" THEN 1 + CountHashes(s, i + 1) ELSE 0

\* the number of whitespace characters from offset i on
RECURSIVE CountSpaces(_, _)
CountSpaces(s, i) ==
  IF i < Len(s) /\ IsSpace(s[i + 1]) THEN 1 + CountSpaces(s, i + 1) ELSE 0

\* offset of the first newline at or after i, or the length of s
RECURSIVE LineEnd(_, _)
LineEnd(s, i) ==
  IF i < Len(s) /\ s[i + 1] # NL THEN LineEnd(s, i + 1) ELSE Min(i, Len(s))

\* String.prototype.trim()
RECURSIVE TrimEnd(_)
TrimEnd(s) ==
  IF s # <<>> /\ IsSpace(s[Len(s)]) THEN TrimEnd(SubSeq(s, 1, Len(s) - 1)) ELSE s

Trim(s) == TrimEnd(SliceFrom(s, CountSpaces(s, 0)))

\* s.replace(/^#+\s*/, ""), h being the number of leading # characters
StripLeading(s, h) == IF h = 0 THEN s ELSE SliceFrom(s, h + CountSpaces(s, h))

StripHashes(s) == StripLeading(s, CountHashes(s, 0))

\* "#".repeat(n)
RECURSIVE Repeat(_)
Repeat(n) == IF n <= 0 THEN <<>> ELSE <<"#">> \o Repeat(n - 1)

(***************************************************************************)
(* The heading pattern /^#+\s*([^\n]+)/gm                                  *)
(***************************************************************************)
NoMatch == [index |-> Null, end |-> Null, cap |-> Null]

\* a match that starts at i and whose group starts at cap: [^\n]+ runs to
\* the end of the line
MatchFrom(s, i, cap) == [index |-> i, end |-> LineEnd(s, cap), cap |-> cap]

\* largest w' < w with a non-newline character at offset base + w', or Null
RECURSIVE BacktrackSpaces(_, _, _)
BacktrackSpaces(s, base, w) ==
  IF w <= 0 THEN Null
  ELSE IF s[base + w] # NL THEN w - 1
  ELSE BacktrackSpaces(s, base, w - 1)

\* [^\n]+ found nothing after h hashes and all the whitespace: \s* gives
\* characters back (to b of them, when b is not Null), then #+ gives one back
MatchBacktrack(s, i, h, b) ==
  IF b # Null THEN MatchFrom(s, i, i + h + b)
  ELSE IF h >= 2 THEN MatchFrom(s, i, i + h - 1)
  ELSE NoMatch

\* #+ took h characters and \s* took w, both greedy
MatchSpaces(s, i, h, w) ==
  IF i + h + w < Len(s) THEN MatchFrom(s, i, i + h + w)
  ELSE MatchBacktrack(s, i, h, BacktrackSpaces(s, i + h, w))

MatchHashes(s, i, h) ==
  IF h = 0 THEN NoMatch ELSE MatchSpaces(s, i, h, CountSpaces(s, i + h))

\* one attempt of the pattern at offset i
HeadingMatchAt(s, i) == MatchHashes(s, i, CountHashes(s, i))

\* ^ under the m flag
IsLineStart(s, i) == i = 0 \/ s[i] = NL

\* matchAll: successive matches, each search resuming where the last ended
RECURSIVE MatchAllFrom(_, _)
RECURSIVE MatchAllNext(_, _, _)
MatchAllFrom(s, i) ==
  IF i >= Len(s) THEN <<>>
  ELSE IF ~IsLineStart(s, i) THEN MatchAllFrom(s, i + 1)
  ELSE MatchAllNext(s, i, HeadingMatchAt(s, i))

MatchAllNext(s, i, m) ==
  IF m = NoMatch THEN MatchAllFrom(s, i + 1)
  ELSE <<m>> \o MatchAllFrom(s, m.end)

MatchAll(s) == MatchAllFrom(s, 0)

\* m[1] of a match
MatchGroup(s, m) == Slice(s, m.cap, m.end)

\* m[0].match(/^#+/)[0].length
MatchLevel(s, m) == CountHashes(s, m.index)

(***************************************************************************)
(* markdown.js                                                             *)
(***************************************************************************)
\* _sectionFromHeadingText(headingText, { level })
_sectionFromHeadingText(headingText, level) ==
  [heading |-> [text |-> headingText, level |-> level]]

\* match[1].replace(/\s/g, "_")
Anchor(t) == [i \in 1..Len(t) |-> IF IsSpace(t[i]) THEN "_" ELSE t[i]]

\* the section object of one match, text being match[1]
HeadingOf(text, level) ==
  [heading |-> [anchor |-> Anchor(text), level |-> level, text |-> text]]

RECURSIVE HeadingsOfMatches(_, _)
HeadingsOfMatches(content, ms) ==
  IF ms = <<>> THEN <<>>
  ELSE <<HeadingOf(MatchGroup(content, Head(ms)), MatchLevel(content, Head(ms)))>>
       \o HeadingsOfMatches(content, Tail(ms))

_getHeadingsFromMarkdown(content) == HeadingsOfMatches(content, MatchAll(content))

\* `${"#".repeat(level)} ${text}\n`
_mdSectionFromObject(section) ==
  Repeat(section.heading.level) \o <<" ">> \o section.heading.text \o <<NL>>

(***************************************************************************)
(* amplenote_rw.js: section ranges                                         *)
(***************************************************************************)
\* this.constants.sectionRegex, applied with matchAll: the heading lines
sectionRegex(bodyContent) == MatchAll(bodyContent)

\* FirstOf that takes the last match whose position is in hits
LastOf(ms, hits) ==
  IF hits = {} THEN NoMatch
  ELSE ms[CHOOSE i \in hits : \A j \in hits : j <= i]

\* Array.prototype.find: the first match whose position is in hits, or NoMatch
FirstOf(ms, hits) ==
  IF hits = {} THEN NoMatch
  ELSE ms[CHOOSE i \in hits : \A j \in hits : i <= j]

\* indexes.find(m => m[1].trim() === sectionHeadingText.trim())
FindSection(bodyContent, indexes, name) ==
  FirstOf(indexes, {i \in 1..Len(indexes) :
                      Trim(MatchGroup(bodyContent, indexes[i])) = name})

\* FindNext without the test of the level: the next heading line
FindNextAnyLevel(bodyContent, indexes, from, level) ==
  FirstOf(indexes, {i \in 1..Len(indexes) : indexes[i].index > from})

\* indexes.find(m => m.index > sectionMatch.index && level(m) <= level)
FindNext(bodyContent, indexes, from, level) ==
  FirstOf(indexes, {i \in 1..Len(indexes) :
                      /\ indexes[i].index > from
                      /\ MatchLevel(bodyContent, indexes[i]) <= level})

\* lines 72-75, nextMatch being found
RangeUpTo(bodyContent, sectionMatch, nextMatch) ==
  [startIndex |-> sectionMatch.end + 1,
   endIndex   |-> IF nextMatch # NoMatch THEN nextMatch.index ELSE Len(bodyContent)]

\* RangeOfMatch with the length of the text as endIndex of a miss
RangeOfMatchEndAtLength(bodyContent, indexes, sectionMatch) ==
  IF sectionMatch = NoMatch
    THEN [startIndex |-> Null, endIndex |-> Len(bodyContent)]
    ELSE RangeUpTo(bodyContent, sectionMatch,
                   FindNext(bodyContent, indexes, sectionMatch.index,
                            MatchLevel(bodyContent, sectionMatch)))

\* lines 68-76
RangeOfMatch(bodyContent, indexes, sectionMatch) ==
  IF sectionMatch = NoMatch
    THEN [startIndex |-> Null, endIndex |-> Null]
    ELSE RangeUpTo(bodyContent, sectionMatch,
                   FindNext(bodyContent, indexes, sectionMatch.index,
                            MatchLevel(bodyContent, sectionMatch)))

SectionRangeIn(bodyContent, indexes, sectionHeadingText) ==
  RangeOfMatch(bodyContent, indexes,
               FindSection(bodyContent, indexes, Trim(sectionHeadingText)))

_sectionRange(bodyContent, sectionHeadingText) ==
  SectionRangeIn(bodyContent, sectionRegex(bodyContent), sectionHeadingText)

\* A string argument is passed as Str(text), a section object as it is, so
\* that typeof can tell them apart.
Str(text) == [string |-> text]

\* lines 18-22
HeadingTextOf(headingTextOrSectionObject) ==
  IF "string" \in DOMAIN headingTextOrSectionObject
    THEN headingTextOrSectionObject.string
    ELSE headingTextOrSectionObject.heading.text

\* SliceRange that slices from startIndex to the end of the text
SliceRangeToEnd(noteContent, range) == SliceFrom(noteContent, range.startIndex)

\* noteContent.slice(startIndex, endIndex)
SliceRange(noteContent, range) == Slice(noteContent, range.startIndex, range.endIndex)

_sectionContent(noteContent, headingTextOrSectionObject) ==
  SliceRange(noteContent,
             _sectionRange(noteContent,
                           StripHashes(HeadingTextOf(headingTextOrSectionObject))))

\* lines 183-187: the headings followed by one of the same or a shallower level
RECURSIVE LeafLoop(_, _)
LeafLoop(depths, i) ==
  IF i >= Len(depths) THEN <<>>
  ELSE (IF depths[i + 1].heading.level <= depths[i].heading.level
          THEN <<depths[i]>> ELSE <<>>)
       \o LeafLoop(depths, i + 1)

\* lines 189-192: the last heading is added unless the level of the last
\* leaf equals depths.length - 1
AddLastNode(depths, leafNodes) ==
  IF Len(depths) > 0
     /\ (Len(leafNodes) = 0
         \/ leafNodes[Len(leafNodes)].heading.level # Len(depths) - 1)
    THEN Append(leafNodes, depths[Len(depths)])
    ELSE leafNodes

_findLeafNodes(depths) == AddLastNode(depths, LeafLoop(depths, 1))

(***************************************************************************)
(* Bounds and input sets                                                   *)
(***************************************************************************)
\* section-level mutations (replace, insert) applied between two flushes
MaxEdits == 1
\* this.constants.maxBookLimitInMemory
maxBookLimitInMemory == 2

\* A uuid is <<marker, n>>.  Note 1 is created locally and may be persisted
\* later, which changes its uuid; note 2 is persisted from the start.
Notes == {1, 2}
LocalNotes == {1}
LocalUuid(n) == <<"local-", n>>
PersistedUuid(n) == <<"note-", n>>
Uuids == {LocalUuid(n) : n \in LocalNotes} \cup {PersistedUuid(n) : n \in Notes}

\* note.uuid.includes("local-")
IncludesLocal(uuid) == uuid[1] = "local-"

\* text of the remote notes, as note.content() may return it
DocNested == <<"#", " ", "A", NL, "#", "#", " ", "B", NL, "x", NL>>
DocFlat == <<"#", " ", "A", NL, "x", NL, "#", " ", "B", NL>>
Docs == {DocNested, DocFlat}

\* arguments the caller passes
HeadingNames == {<<"B">>, <<"#", "#", " ", "B">>, <<"C">>}
NewContents == {<<"x">>}
Levels == {1, 2}

VARIABLES
  useLocalNoteContents,  \* this._useLocalNoteContents
  noteContents,          \* this._noteContents: <<[uuid, content], ...>> in insertion order
  persisted,             \* the notes whose uuid has changed from local to persisted
  op,                    \* the last operation: its name, arguments and outcome
  calls,                 \* the remote calls the last operation issued, in order
  edits,                 \* the mutations applied since the last flush
  run,                   \* the reads of unbuffered notes made in a row from an empty buffer
  depths,                \* the argument of _findLeafNodes
  leafNodes              \* the value _findLeafNodes returned

vars == <<useLocalNoteContents, noteContents, persisted, op, calls, edits, run,
          depths, leafNodes>>

(***************************************************************************)
(* this._noteContents: an object whose keys are kept in insertion order    *)
(***************************************************************************)
Keys(contents) == [i \in 1..Len(contents) |-> contents[i].uuid]

Has(contents, uuid) == \E i \in 1..Len(contents) : contents[i].uuid = uuid

\* contents[uuid], for a key that is present
Get(contents, uuid) ==
  contents[CHOOSE i \in 1..Len(contents) : contents[i].uuid = uuid].content

\* contents[uuid] = content: an existing key keeps its place, a new one goes last
Put(contents, uuid, content) ==
  IF Has(contents, uuid)
    THEN [i \in 1..Len(contents) |->
            IF contents[i].uuid = uuid
              THEN [uuid |-> uuid, content |-> content] ELSE contents[i]]
    ELSE Append(contents, [uuid |-> uuid, content |-> content])

\* delete contents[uuid]
RECURSIVE Delete(_, _)
Delete(contents, uuid) ==
  IF contents = <<>> THEN <<>>
  ELSE IF Head(contents).uuid = uuid THEN Delete(Tail(contents), uuid)
  ELSE <<Head(contents)>> \o Delete(Tail(contents), uuid)

(***************************************************************************)
(* The host application                                                    *)
(***************************************************************************)
NoSection == [heading |-> [text |-> <<>>, level |-> 0]]

Call(fn, uuid, content, section) ==
  [fn |-> fn, uuid |-> uuid, content |-> content, section |-> section]

\* app.notes.find(uuid).uuid: a persisted note answers with its new uuid
NoteUuid(uuid) ==
  IF IncludesLocal(uuid) /\ uuid[2] \in persisted THEN PersistedUuid(uuid[2]) ELSE uuid

(***************************************************************************)
(* _flushLocalNotes                                                        *)
(***************************************************************************)
\* The result of a (part of a) flush: the buffer, the calls issued so far,
\* and whether a remote call threw.  failAt is the number of the remote call
\* that throws, 0 for none.
FlushState(contents, issued, threw) ==
  [noteContents |-> contents, calls |-> issued, threw |-> threw]

\* lines 159-161: the heading lines of all sections
RECURSIVE TableOfContents(_)
TableOfContents(sections) ==
  IF sections = <<>> THEN <<>>
  ELSE _mdSectionFromObject(Head(sections)) \o TableOfContents(Tail(sections))

\* lines 166-170: one write per leaf section, issued being the calls so far
RECURSIVE WriteSections(_, _, _, _, _)
RECURSIVE WriteNext(_, _, _, _, _)
WriteSections(content, noteUuid, sections, issued, failAt) ==
  IF sections = <<>> THEN [calls |-> issued, threw |-> FALSE]
  ELSE WriteNext(content, noteUuid, Tail(sections),
                 Append(issued, Call("app.replaceNoteContent", noteUuid,
                                     _sectionContent(content, Head(sections)),
                                     Head(sections))),
                 failAt)

WriteNext(content, noteUuid, sections, issued, failAt) ==
  IF Len(issued) = failAt THEN [calls |-> issued, threw |-> TRUE]
  ELSE WriteSections(content, noteUuid, sections, issued, failAt)

\* lines 148-152: the buffer after the entry is stored under the note's uuid
Rekeyed(contents, uuid, noteUuid) ==
  IF ~IncludesLocal(noteUuid)
    THEN Put(contents, noteUuid, Get(contents, uuid)) ELSE contents

\* FlushWritten with line 172 missing: the migrated key stays
FlushWrittenKeepMigrated(rekeyed, uuid, noteUuid, written) ==
  IF written.threw THEN FlushState(rekeyed, written.calls, TRUE)
  ELSE FlushState(Delete(rekeyed, uuid), written.calls, FALSE)

\* FlushWritten with lines 171-172 missing: both keys stay
FlushWrittenKeepBoth(rekeyed, uuid, noteUuid, written) ==
  FlushState(rekeyed, written.calls, written.threw)

\* lines 171-172
FlushWritten(rekeyed, uuid, noteUuid, written) ==
  IF written.threw THEN FlushState(rekeyed, written.calls, TRUE)
  ELSE FlushState(Delete(Delete(rekeyed, uuid), noteUuid), written.calls, FALSE)

\* lines 162-170, toc being the calls up to the write of the heading lines
FlushSections(rekeyed, uuid, noteUuid, content, sections, toc, failAt) ==
  IF Len(toc) = failAt THEN FlushState(rekeyed, toc, TRUE)
  ELSE FlushWritten(rekeyed, uuid, noteUuid,
                    WriteSections(content, noteUuid, _findLeafNodes(sections),
                                  toc, failAt))

\* FlushRekeyed with the write of line 162 missing
FlushRekeyedNoToc(rekeyed, uuid, noteUuid, content, sections, found, failAt) ==
  FlushSections(rekeyed, uuid, noteUuid, content, sections, found, 0)

\* lines 153-162: _sections(note) reads this._noteContents[note.uuid]
FlushRekeyed(rekeyed, uuid, noteUuid, content, sections, found, failAt) ==
  FlushSections(rekeyed, uuid, noteUuid, content, sections,
                Append(found, Call("app.replaceNoteContent", noteUuid,
                                   TableOfContents(sections), NoSection)),
                failAt)

\* lines 146-152, found being the calls up to app.notes.find
FlushFound(contents, rekeyed, uuid, noteUuid, found, failAt) ==
  IF Len(found) = failAt THEN FlushState(contents, found, TRUE)
  ELSE FlushRekeyed(rekeyed, uuid, noteUuid, Get(contents, uuid),
                    _getHeadingsFromMarkdown(Get(rekeyed, noteUuid)),
                    found, failAt)

\* lines 145-172: the body of the loop for one key
FlushNote(contents, uuid, issued, failAt) ==
  FlushFound(contents, Rekeyed(contents, uuid, NoteUuid(uuid)), uuid, NoteUuid(uuid),
             Append(issued, Call("app.notes.find", uuid, <<>>, NoSection)),
             failAt)

\* for (const uuid in this._noteContents): the keys present when the loop
\* starts, in insertion order; a key deleted before its turn is not visited
RECURSIVE FlushLoop(_, _, _, _)
RECURSIVE FlushLoopNext(_, _, _)
FlushLoop(contents, keys, issued, failAt) ==
  IF keys = <<>> THEN FlushState(contents, issued, FALSE)
  ELSE IF ~Has(contents, Head(keys))
    THEN FlushLoop(contents, Tail(keys), issued, failAt)
  ELSE FlushLoopNext(FlushNote(contents, Head(keys), issued, failAt),
                     Tail(keys), failAt)

\* FlushLoopNext leaving the loop after the first note
FlushLoopNextOnlyFirst(one, keys, failAt) == one

FlushLoopNext(one, keys, failAt) ==
  IF one.threw THEN one
  ELSE FlushLoop(one.noteContents, keys, one.calls, failAt)

_flushLocalNotes(contents, failAt) == FlushLoop(contents, Keys(contents), <<>>, failAt)

(***************************************************************************)
(* The operations                                                          *)
(***************************************************************************)
\* what the last operation was and how it ended; ret is the returned text,
\* flushes the number of times it ran _flushLocalNotes
Op(name, uuid, heading, content, atEnd, threw, ret, flushes) ==
  [name |-> name, uuid |-> uuid, heading |-> heading, content |-> content,
   atEnd |-> atEnd, threw |-> threw, ret |-> ret, flushes |-> flushes]

NoUuid == <<"", 0>>
NoRun == [uuids |-> <<>>, flushes |-> 0]
NoOp == Op("init", NoUuid, <<>>, <<>>, FALSE, FALSE, <<>>, 0)

\* the note handles a caller can hold: the persisted uuid of a note created
\* locally exists only once the note has been persisted
IsHandle(uuid) ==
  /\ uuid \in Uuids
  /\ (~IncludesLocal(uuid) /\ uuid[2] \in LocalNotes) => uuid[2] \in persisted

\* What the host does during an operation that issues up to last remote
\* calls: call number failAt throws (0: none does), and note.content(), when
\* it is reached, returns text.
Choices(last) ==
  {[failAt |-> k, text |-> <<>>] : k \in 1..last}
    \cup {[failAt |-> 0, text |-> t] : t \in Docs}

Init ==
  /\ useLocalNoteContents \in BOOLEAN
  /\ noteContents = <<>>
  /\ persisted = {}
  /\ op = NoOp
  /\ calls = <<>>
  /\ edits = 0
  /\ run = NoRun
  /\ depths = <<>>
  /\ leafNodes = <<>>

\* The host persists a note created locally: its uuid changes (lines 148-150).
Persist(n) ==
  /\ n \in LocalNotes \ persisted
  /\ persisted' = persisted \cup {n}
  /\ UNCHANGED <<useLocalNoteContents, noteContents, op, calls, edits, run,
                 depths, leafNodes>>

\* lines 132: the note is buffered
NoteContentBuffered(uuid) ==
  /\ noteContents' = noteContents
  /\ calls' = <<>>
  /\ op' = Op("noteContent", uuid, <<>>, <<>>, FALSE, FALSE, Get(noteContents, uuid), 0)
  /\ edits' = edits
  /\ run' = NoRun

\* the reads made in a row from an empty buffer, after one more of uuid
RunAfter(uuid, nflush) ==
  IF noteContents = <<>> THEN [uuids |-> <<uuid>>, flushes |-> 0]
  ELSE IF run # NoRun /\ Len(run.uuids) <= maxBookLimitInMemory
    THEN [uuids |-> Append(run.uuids, uuid), flushes |-> run.flushes + nflush]
  ELSE NoRun

\* lines 125-132 for a note that is not buffered: flushed is the outcome of
\* the flush of line 128 (of no flush, when nflush = 0), threw tells whether
\* the flush or note.content() threw
NoteContentStored(uuid, flushed, nflush, threw, text) ==
  /\ noteContents' = IF threw THEN flushed.noteContents
                     ELSE Put(flushed.noteContents, uuid, text)
  /\ calls' = IF flushed.threw THEN flushed.calls
              ELSE Append(flushed.calls, Call("note.content", uuid, <<>>, NoSection))
  /\ op' = Op("noteContent", uuid, <<>>, <<>>, FALSE, threw,
              IF threw THEN <<>> ELSE text, nflush)
  /\ edits' = IF nflush = 1 /\ ~flushed.threw THEN 0 ELSE edits
  /\ run' = IF threw THEN NoRun ELSE RunAfter(uuid, nflush)

NoteContentFetched(uuid, flushed, nflush, choice) ==
  NoteContentStored(uuid, flushed, nflush,
                    flushed.threw \/ choice.failAt = Len(flushed.calls) + 1,
                    choice.text)

\* line 134: buffering is off
NoteContentRemote(uuid, choice) ==
  /\ noteContents' = noteContents
  /\ calls' = <<Call("note.content", uuid, <<>>, NoSection)>>
  /\ op' = Op("noteContent", uuid, <<>>, <<>>, FALSE, choice.failAt = 1, choice.text, 0)
  /\ edits' = edits
  /\ run' = NoRun

\* _noteContent without the test of line 127: every read of a note that is
\* not buffered flushes first
_noteContentFlushOnEveryMiss(uuid) ==
  /\ IsHandle(uuid)
  /\ IF ~useLocalNoteContents
       THEN \E choice \in Choices(1) : NoteContentRemote(uuid, choice)
     ELSE IF Has(noteContents, uuid)
       THEN NoteContentBuffered(uuid)
     ELSE \E choice \in Choices(Len(_flushLocalNotes(noteContents, 0).calls) + 1) :
            NoteContentFetched(uuid, _flushLocalNotes(noteContents, choice.failAt),
                               1, choice)
  /\ UNCHANGED <<useLocalNoteContents, persisted, depths, leafNodes>>

\* _noteContent(note), lines 123-136
_noteContent(uuid) ==
  /\ IsHandle(uuid)
  /\ IF ~useLocalNoteContents
       THEN \E choice \in Choices(1) : NoteContentRemote(uuid, choice)
     ELSE IF Has(noteContents, uuid)
       THEN NoteContentBuffered(uuid)
     ELSE IF Len(noteContents) >= maxBookLimitInMemory
       THEN \E choice \in Choices(Len(_flushLocalNotes(noteContents, 0).calls) + 1) :
              NoteContentFetched(uuid, _flushLocalNotes(noteContents, choice.failAt),
                                 1, choice)
     ELSE \E choice \in Choices(1) :
            NoteContentFetched(uuid, FlushState(noteContents, <<>>, FALSE), 0, choice)
  /\ UNCHANGED <<useLocalNoteContents, persisted, depths, leafNodes>>

\* RevisedContent that drops the text from endIndex on
RevisedContentNoSuffix(bodyContent, range, newContent) ==
  Slice(bodyContent, 0, range.startIndex) \o <<NL>> \o newContent

\* line 50: the buffered text with the range replaced
RevisedContent(bodyContent, range, newContent) ==
  Slice(bodyContent, 0, range.startIndex) \o <<NL>> \o newContent
    \o SliceFrom(bodyContent, range.endIndex)

\* ReplaceInRange without the test of line 49
ReplaceInRangeUnchecked(uuid, sectionHeadingText, newContent, bodyContent, range) ==
  /\ edits < MaxEdits
  /\ noteContents' = Put(noteContents, uuid, RevisedContent(bodyContent, range, newContent))
  /\ calls' = <<>>
  /\ op' = Op("replaceContent", uuid, sectionHeadingText, newContent, FALSE,
              ~Truthy(range.startIndex), <<>>, 0)
  /\ edits' = edits + 1
  /\ run' = NoRun

\* lines 49-54, range being the value of _sectionRange
ReplaceInRange(uuid, sectionHeadingText, newContent, bodyContent, range) ==
  /\ Truthy(range.startIndex) => edits < MaxEdits
  /\ noteContents' = IF Truthy(range.startIndex)
                       THEN Put(noteContents, uuid,
                                RevisedContent(bodyContent, range, newContent))
                       ELSE noteContents
  /\ calls' = <<>>
  /\ op' = Op("replaceContent", uuid, sectionHeadingText, newContent, FALSE,
              ~Truthy(range.startIndex), <<>>, 0)
  /\ edits' = IF Truthy(range.startIndex) THEN edits + 1 ELSE edits
  /\ run' = NoRun

\* lines 46-47 for a note that is not buffered: bodyContent is undefined and
\* bodyContent.matchAll throws a TypeError
ReplaceUnbuffered(uuid, sectionHeadingText, newContent) ==
  /\ noteContents' = noteContents
  /\ calls' = <<>>
  /\ op' = Op("replaceContent", uuid, sectionHeadingText, newContent, FALSE,
              TRUE, <<>>, 0)
  /\ edits' = edits
  /\ run' = NoRun

\* line 56: buffering is off
ReplaceContentRemote(uuid, sectionHeadingText, newContent, level, failAt) ==
  /\ noteContents' = noteContents
  /\ calls' = <<Call("note.replaceContent", uuid, newContent,
                     _sectionFromHeadingText(sectionHeadingText, level))>>
  /\ op' = Op("replaceContent", uuid, sectionHeadingText, newContent, FALSE,
              failAt = 1, <<>>, 0)
  /\ edits' = edits
  /\ run' = NoRun

\* _replaceContent(note, sectionHeadingText, newContent, { level }), lines 38-58
_replaceContent(uuid) ==
  /\ IsHandle(uuid)
  /\ \E sectionHeadingText \in HeadingNames, newContent \in NewContents :
       IF ~useLocalNoteContents
         THEN \E level \in Levels, failAt \in {0, 1} :
                ReplaceContentRemote(uuid, sectionHeadingText, newContent, level, failAt)
       ELSE IF ~Has(noteContents, uuid)
         THEN ReplaceUnbuffered(uuid, sectionHeadingText, newContent)
       ELSE ReplaceInRange(uuid, sectionHeadingText, newContent,
                           Get(noteContents, uuid),
                           _sectionRange(Get(noteContents, uuid), sectionHeadingText))
  /\ UNCHANGED <<useLocalNoteContents, persisted, depths, leafNodes>>

\* lines 86-90
InsertedContent(oldContent, newContent, atEnd) ==
  IF atEnd THEN Trim(oldContent) \o <<NL>> \o newContent
  ELSE Trim(newContent) \o <<NL>> \o oldContent

\* line 85: this._noteContents[note.uuid] || ""
OldContent(uuid) == IF Has(noteContents, uuid) THEN Get(noteContents, uuid) ELSE <<>>

InsertContentLocal(uuid, newContent, atEnd) ==
  /\ edits < MaxEdits
  /\ noteContents' = Put(noteContents, uuid,
                         InsertedContent(OldContent(uuid), newContent, atEnd))
  /\ calls' = <<>>
  /\ op' = Op("insertContent", uuid, <<>>, newContent, atEnd, FALSE, <<>>, 0)
  /\ edits' = edits + 1
  /\ run' = NoRun

\* line 92: buffering is off
InsertContentRemote(uuid, newContent, atEnd, failAt) ==
  /\ noteContents' = noteContents
  /\ calls' = <<Call("note.insertContent", uuid, newContent, NoSection)>>
  /\ op' = Op("insertContent", uuid, <<>>, newContent, atEnd, failAt = 1, <<>>, 0)
  /\ edits' = edits
  /\ run' = NoRun

\* _insertContent(note, newContent, { atEnd }), lines 83-94
_insertContent(uuid) ==
  /\ IsHandle(uuid)
  /\ \E newContent \in NewContents, atEnd \in BOOLEAN :
       IF useLocalNoteContents
         THEN InsertContentLocal(uuid, newContent, atEnd)
         ELSE \E failAt \in {0, 1} :
                InsertContentRemote(uuid, newContent, atEnd, failAt)
  /\ UNCHANGED <<useLocalNoteContents, persisted, depths, leafNodes>>

\* the state after _flushLocalNotes ended as flushed
Flushed(flushed) ==
  /\ noteContents' = flushed.noteContents
  /\ calls' = flushed.calls
  /\ op' = Op("flushLocalNotes", NoUuid, <<>>, <<>>, FALSE, flushed.threw, <<>>, 1)
  /\ edits' = IF flushed.threw THEN edits ELSE 0
  /\ run' = NoRun

\* _flushLocalNotes(app) called by the plugin, lines 142-174
FlushLocalNotes ==
  /\ \E failAt \in 0..Len(_flushLocalNotes(noteContents, 0).calls) :
       Flushed(_flushLocalNotes(noteContents, failAt))
  /\ UNCHANGED <<useLocalNoteContents, persisted, depths, leafNodes>>

Next ==
  \/ \E n \in Notes : Persist(n)
  \/ \E uuid \in Uuids : _noteContent(uuid)
  \/ \E uuid \in Uuids : _replaceContent(uuid)
  \/ \E uuid \in Uuids : _insertContent(uuid)
  \/ FlushLocalNotes

Spec == Init /\ [][Next]_vars

(***************************************************************************)
(* Flush alone, from any buffer                                            *)
(***************************************************************************)
\* entries in the buffer when a flush starts
MaxBuffered == 2

DocLevel2 == <<"#", "#", " ", "A", NL, "#", "#", " ", "B", NL, "x", NL>>
DocPreamble == <<"x", NL, "#", " ", "A", NL, "x", NL>>
DocParentText == <<"#", " ", "A", NL, "x", NL, "#", "#", " ", "B", NL>>
FlushDocs == Docs \cup {DocLevel2, DocPreamble, DocParentText}

\* the buffers of up to MaxBuffered entries, each uuid at most once
FlushBuffers ==
  {b \in UNION {[1..n -> [uuid : Uuids, content : FlushDocs]] : n \in 0..MaxBuffered} :
     \A i, j \in 1..Len(b) : b[i].uuid = b[j].uuid => i = j}

InitFlush ==
  /\ useLocalNoteContents = TRUE
  /\ persisted \in SUBSET LocalNotes
  /\ noteContents \in FlushBuffers
  /\ \A i \in 1..Len(noteContents) : IsHandle(noteContents[i].uuid)
  /\ op = NoOp
  /\ calls = <<>>
  /\ edits = 0
  /\ run = NoRun
  /\ depths = <<>>
  /\ leafNodes = <<>>

NextFlush ==
  \/ \E n \in Notes : Persist(n)
  \/ FlushLocalNotes

SpecFlush == InitFlush /\ [][NextFlush]_vars

(***************************************************************************)
(* _findLeafNodes alone, on any sequence of headings                       *)
(***************************************************************************)
MaxHeadings == 4
MaxLevel == 3

\* the i-th heading of a sequence carries the i-th letter as its text
Letters == <<"A", "B", "C", "D", "E", "F">>

HeadingsOfLevels(levels) ==
  [i \in 1..Len(levels) |-> HeadingOf(<<Letters[i]>>, levels[i])]

InitLeaf ==
  /\ \E levels \in UNION {[1..n -> 1..MaxLevel] : n \in 0..MaxHeadings} :
       depths = HeadingsOfLevels(levels)
  /\ leafNodes = <<>>
  /\ useLocalNoteContents = TRUE
  /\ noteContents = <<>>
  /\ persisted = {}
  /\ op = NoOp
  /\ calls = <<>>
  /\ edits = 0
  /\ run = NoRun

\* a call of _findLeafNodes(depths), lines 180-195
FindLeafNodes ==
  /\ op = NoOp
  /\ leafNodes' = _findLeafNodes(depths)
  /\ op' = Op("findLeafNodes", NoUuid, <<>>, <<>>, FALSE, FALSE, <<>>, 0)
  /\ UNCHANGED <<useLocalNoteContents, noteContents, persisted, calls, edits, run, depths>>

NextLeaf == FindLeafNodes

SpecLeaf == InitLeaf /\ [][NextLeaf]_vars

(***************************************************************************)
(* Properties                                                              *)
(***************************************************************************)
IsFind(c) == c.fn = "app.notes.find"
IsWrite(c) == c.fn = "app.replaceNoteContent"
IsTocWrite(c) == IsWrite(c) /\ c.section = NoSection
IsSectionWrite(c) == IsWrite(c) /\ c.section # NoSection
IsFetch(c) == c.fn = "note.content"

\* the operation that ended in this state ran a flush
FlushRan == op.flushes = 1
FlushCompleted == op.name = "flushLocalNotes" /\ ~op.threw

\* the position of the last app.notes.find before position j, 0 if none
LastFindBefore(cs, j) ==
  LET finds == {i \in 1..(j - 1) : IsFind(cs[i])}
  IN  IF finds = {} THEN 0 ELSE CHOOSE i \in finds : \A k \in finds : k <= i

\* the positions of the headings that are leaves: the next heading has a
\* level <= their own, or they are the last heading
LeafPositions(headings) ==
  {i \in 1..Len(headings) :
     i = Len(headings) \/ headings[i + 1].heading.level <= headings[i].heading.level}

RECURSIVE PickFrom(_, _, _)
PickFrom(headings, positions, i) ==
  IF i > Len(headings) THEN <<>>
  ELSE (IF i \in positions THEN <<headings[i]>> ELSE <<>>)
       \o PickFrom(headings, positions, i + 1)

\* the leaf headings, in document order
LeafHeadings(headings) == PickFrom(headings, LeafPositions(headings), 1)

\* C1: with buffering enabled the buffer never holds more than
\* maxBookLimitInMemory entries.
C1_BufferBounded ==
  useLocalNoteContents => Len(noteContents) <= maxBookLimitInMemory

\* C3: _findLeafNodes returns, in document order, exactly the headings whose
\* next heading has a level <= their own, plus the last heading.
C3_LeafSections ==
  op.name = "findLeafNodes" => leafNodes = LeafHeadings(depths)

\* C4: in the calls of a flush every write follows an app.notes.find, all
\* writes between two finds go to one note, the first of them is the write
\* of the heading lines and the others are section writes.
C4_TocBeforeSections ==
  FlushRan =>
    \A j \in 1..Len(calls) :
      IsWrite(calls[j]) =>
        LET f == LastFindBefore(calls, j)
        IN  /\ f > 0
            /\ IsTocWrite(calls[f + 1])
            /\ calls[f + 1].uuid = calls[j].uuid
            /\ IsTocWrite(calls[j]) <=> j = f + 1

\* C4 is exercised: a flush of two notes wrote sections for both
C4_Witness ==
  /\ FlushCompleted
  /\ \E i, j \in 1..Len(calls) :
       /\ i < j
       /\ IsSectionWrite(calls[i]) /\ IsSectionWrite(calls[j])
       /\ calls[i].uuid # calls[j].uuid

\* C5: maxBookLimitInMemory + 1 reads of unbuffered notes in a row, starting
\* from an empty buffer, ran exactly one flush; it ran in the last read,
\* before the note was fetched, and the buffer then holds the last note only.
C5_Eviction ==
  Len(run.uuids) = maxBookLimitInMemory + 1 =>
    /\ run.flushes = 1
    /\ op.name = "noteContent" /\ op.flushes = 1 /\ ~op.threw
    /\ Keys(noteContents) = <<run.uuids[maxBookLimitInMemory + 1]>>
    /\ Len(calls) > 1
    /\ IsFetch(calls[Len(calls)])
    /\ calls[Len(calls)].uuid = run.uuids[maxBookLimitInMemory + 1]
    /\ IsFind(calls[1]) /\ calls[1].uuid = run.uuids[1]
    /\ \A j \in 1..(Len(calls) - 1) : IsFind(calls[j]) \/ IsWrite(calls[j])

\* C5 is exercised: the third read in a row of an unbuffered note has ended
C5_Witness ==
  /\ Len(run.uuids) = maxBookLimitInMemory + 1
  /\ op.name = "noteContent"

\* C8: after a flush that completed the buffer is empty.
C8_EmptyAfterFlush ==
  FlushCompleted => noteContents = <<>>

\* C8 is exercised: a completed flush wrote a note under its migrated uuid
C8_Witness ==
  /\ FlushCompleted
  /\ \E j \in 1..(Len(calls) - 1) :
       /\ IsFind(calls[j]) /\ IncludesLocal(calls[j].uuid)
       /\ IsWrite(calls[j + 1]) /\ ~IncludesLocal(calls[j + 1].uuid)

\* a step that is an operation of the module, not the host persisting a note
OperationStep == persisted' = persisted

\* the position in cs of app.notes.find(uuid), 0 if it was not called
FindPosition(cs, uuid) ==
  LET finds == {i \in 1..Len(cs) : IsFind(cs[i]) /\ cs[i].uuid = uuid}
  IN  IF finds = {} THEN 0 ELSE CHOOSE i \in finds : \A k \in finds : i <= k

\* the positions of the calls issued for the note found at position f: those
\* after f and before the next app.notes.find
SegmentOf(cs, f) ==
  {j \in (f + 1)..Len(cs) : \A k \in (f + 1)..j : ~IsFind(cs[k])}

\* the section writes issued for the buffered entry uuid that carry section
SectionWritesFor(cs, uuid, section) ==
  {j \in SegmentOf(cs, FindPosition(cs, uuid)) :
     FindPosition(cs, uuid) > 0 /\ IsSectionWrite(cs[j]) /\ cs[j].section = section}

\* C2: a flush that completes issues, for every buffered note and every leaf
\* heading of its text, exactly one section write, whose payload is the
\* content extracted for that heading from the buffered text.
C2_OneWritePerLeaf ==
  [][(OperationStep /\ op'.name = "flushLocalNotes" /\ ~op'.threw) =>
       \A i \in 1..Len(noteContents) :
         LET text == noteContents[i].content
             leaves == LeafHeadings(_getHeadingsFromMarkdown(text))
         IN  \A k \in 1..Len(leaves) :
               /\ Cardinality(SectionWritesFor(calls', noteContents[i].uuid, leaves[k])) = 1
               /\ \A j \in SectionWritesFor(calls', noteContents[i].uuid, leaves[k]) :
                    calls'[j].content = _sectionContent(text, leaves[k])]_vars

\* C6: in a flush that completes and re-keys an entry, every entry that was
\* buffered has its own text used: some note found by the flush gets the
\* heading lines of that text written, and its section writes carry content
\* extracted from that text.
C6_NoContentLost ==
  [][(/\ OperationStep /\ op'.name = "flushLocalNotes" /\ ~op'.threw
      /\ \E i \in 1..Len(noteContents) :
           NoteUuid(noteContents[i].uuid) # noteContents[i].uuid) =>
       \A i \in 1..Len(noteContents) :
         \E f \in 1..(Len(calls') - 1) :
           /\ IsFind(calls'[f])
           /\ IsTocWrite(calls'[f + 1])
           /\ calls'[f + 1].content
                = TableOfContents(_getHeadingsFromMarkdown(noteContents[i].content))
           /\ \A j \in SegmentOf(calls', f) :
                IsSectionWrite(calls'[j]) =>
                  calls'[j].content
                    = _sectionContent(noteContents[i].content, calls'[j].section)]_vars

\* C7: when a remote call fails during a flush, the notes flushed before the
\* failure are no longer buffered, and the note being flushed and the notes
\* not reached are buffered under their uuid with their text unchanged.
C7_FailedFlushKeepsRest ==
  [][(OperationStep /\ op'.name = "flushLocalNotes" /\ op'.threw) =>
       \A i \in 1..Len(noteContents) :
         LET uuid == noteContents[i].uuid
             f == FindPosition(calls', uuid)
         IN  IF f > 0 /\ f < LastFindBefore(calls', Len(calls') + 1)
               THEN ~Has(noteContents', uuid)
               ELSE /\ Has(noteContents', uuid)
                    /\ Get(noteContents', uuid) = noteContents[i].content]_vars

\* the range _replaceContent works on, line 47
ReplaceRange(bodyContent, sectionHeadingText) == _sectionRange(bodyContent, sectionHeadingText)

\* C9: with buffering on, _replaceContent for a heading that is not found in
\* the buffered text throws, leaves the buffer as it was and issues no call.
C9_NotFoundThrows ==
  [][(/\ OperationStep /\ useLocalNoteContents /\ op'.name = "replaceContent"
      /\ Has(noteContents, op'.uuid)
      /\ ReplaceRange(Get(noteContents, op'.uuid), op'.heading).startIndex = Null) =>
       /\ op'.threw
       /\ noteContents' = noteContents
       /\ calls' = <<>>]_vars

\* C9 is exercised: a replace of a heading the buffered text lacks has thrown
C9_Witness ==
  /\ useLocalNoteContents
  /\ op.name = "replaceContent" /\ op.threw /\ op.heading = <<"C">>
  /\ Has(noteContents, op.uuid)
  /\ Len(noteContents) = 2

\* a heading line of text at level with the given heading text
ContainsHeading(text, name, level) ==
  \E k \in 1..Len(_getHeadingsFromMarkdown(text)) :
    /\ Trim(_getHeadingsFromMarkdown(text)[k].heading.text) = name
    /\ _getHeadingsFromMarkdown(text)[k].heading.level = level

HeadingB == <<"B">>
HeadingLineB == <<"#", "#", " ", "B">>

\* C10: on a buffered text with heading B at level 2, "## B" addresses the
\* range "B" addresses, for _sectionContent and for _replaceContent, and a
\* _replaceContent called with "## B" does not throw.
C10_HeadingLineSameAsText ==
  /\ \A i \in 1..Len(noteContents) :
       ContainsHeading(noteContents[i].content, HeadingB, 2) =>
         /\ _sectionContent(noteContents[i].content, Str(HeadingLineB))
              = _sectionContent(noteContents[i].content, Str(HeadingB))
         /\ ReplaceRange(noteContents[i].content, HeadingLineB)
              = ReplaceRange(noteContents[i].content, HeadingB)
  /\ (/\ useLocalNoteContents
      /\ op.name = "replaceContent" /\ op.heading = HeadingLineB
      /\ Has(noteContents, op.uuid)
      /\ ContainsHeading(Get(noteContents, op.uuid), HeadingB, 2)) => ~op.threw

(***************************************************************************)
(* _sectionRange and _sectionContent alone, on any text of a few lines     *)
(***************************************************************************)
\* lines of a text
MaxLines == 4

LineA == <<"#", " ", "A">>
LineC == <<"#", " ", "C">>
LineSubB == <<"#", "#", " ", "B">>
LineText == <<"x">>
LineHash == <<"#">>
Lines == {LineA, LineSubB, LineC, LineText, LineHash}

\* the lines joined by newlines
RECURSIVE JoinLines(_)
JoinLines(ls) ==
  IF ls = <<>> THEN <<>>
  ELSE IF Len(ls) = 1 THEN ls[1]
  ELSE ls[1] \o <<NL>> \o JoinLines(Tail(ls))

\* the texts of up to MaxLines lines, with or without a final newline
SectionDocs ==
  LET joined == {JoinLines(ls) : ls \in UNION {[1..n -> Lines] : n \in 0..MaxLines}}
  IN  joined \cup {d \o <<NL>> : d \in joined}

SectionNames == {<<"A">>, <<"B">>, <<"#", "#", " ", "B">>, <<"D">>}

InitSection ==
  /\ useLocalNoteContents = TRUE
  /\ \E doc \in SectionDocs :
       noteContents = <<[uuid |-> PersistedUuid(2), content |-> doc]>>
  /\ persisted = {}
  /\ op = NoOp
  /\ calls = <<>>
  /\ edits = 0
  /\ run = NoRun
  /\ depths = <<>>
  /\ leafNodes = <<>>

\* a call of _sectionRange(bodyContent, sectionHeadingText) on the buffered
\* text, lines 64-77; ret is the range returned
SectionRange ==
  /\ \E sectionHeadingText \in SectionNames :
       op' = Op("sectionRange", noteContents[1].uuid, sectionHeadingText, <<>>, FALSE,
                FALSE, _sectionRange(noteContents[1].content, sectionHeadingText), 0)
  /\ UNCHANGED <<useLocalNoteContents, noteContents, persisted, calls, edits, run,
                 depths, leafNodes>>

\* a call of _sectionContent(noteContent, headingText) on the buffered text,
\* lines 15-32; ret is the text returned
SectionContent ==
  /\ \E headingText \in SectionNames :
       op' = Op("sectionContent", noteContents[1].uuid, headingText, <<>>, FALSE,
                FALSE, _sectionContent(noteContents[1].content, Str(headingText)), 0)
  /\ UNCHANGED <<useLocalNoteContents, noteContents, persisted, calls, edits, run,
                 depths, leafNodes>>

NextSection == SectionRange \/ SectionContent

SpecSection == InitSection /\ [][NextSection]_vars

(***************************************************************************)
(* Properties of section ranges                                            *)
(***************************************************************************)
\* the text a call of _sectionRange or _sectionContent worked on
CalledOn == noteContents[1].content

\* the positions, among the heading lines of text, of those whose trimmed
\* text is name
HeadingsNamed(text, name) ==
  {i \in 1..Len(MatchAll(text)) : Trim(MatchGroup(text, MatchAll(text)[i])) = Trim(name)}

\* the positions of the heading lines after the k-th whose level is <= its own
LaterNotDeeper(text, k) ==
  {j \in (k + 1)..Len(MatchAll(text)) :
     MatchLevel(text, MatchAll(text)[j]) <= MatchLevel(text, MatchAll(text)[k])}

\* C11: for a name that occurs in the text, _sectionRange takes the first
\* heading line with that trimmed text; the range starts one past the end of
\* that line (past its newline) and ends where the first later heading of
\* the same or a shallower level starts, or at the length of the text; the
\* deeper headings in between lie inside the range.
C11_RangeOfFirstMatch ==
  (op.name = "sectionRange" /\ HeadingsNamed(CalledOn, op.heading) # {}) =>
    \E k \in HeadingsNamed(CalledOn, op.heading) :
      LET ms == MatchAll(CalledOn)
          later == LaterNotDeeper(CalledOn, k)
      IN  /\ \A i \in HeadingsNamed(CalledOn, op.heading) : k <= i
          /\ ms[k].end = Len(CalledOn) \/ CalledOn[ms[k].end + 1] = NL
          /\ op.ret.startIndex = ms[k].end + 1
          /\ later = {} => op.ret.endIndex = Len(CalledOn)
          /\ later # {} =>
               \E n \in later :
                 /\ \A j \in later : n <= j
                 /\ op.ret.endIndex = ms[n].index
          /\ \A j \in (k + 1)..Len(ms) :
               (\A n \in later : j < n) =>
                 /\ op.ret.startIndex <= ms[j].index
                 /\ ms[j].end <= op.ret.endIndex

\* C11 is exercised: "A" located in "# A\n## B\nx\n# A", where the name
\* occurs twice and a deeper heading lies in the range
C11_Witness ==
  /\ op.name = "sectionRange" /\ op.heading = <<"A">>
  /\ CalledOn = JoinLines(<<LineA, LineSubB, LineText, LineA>>)
  /\ op.ret = [startIndex |-> 4, endIndex |-> 11]

\* the last call was _sectionRange with a name no heading line of the text has
RangeMissed == op.name = "sectionRange" /\ HeadingsNamed(CalledOn, op.heading) = {}

\* C12 as stated: on a miss _sectionRange returns startIndex null and
\* endIndex the length of the text.
C12_MissEndsAtLength ==
  RangeMissed => op.ret = [startIndex |-> Null, endIndex |-> Len(CalledOn)]

\* C12, amended: on a miss _sectionRange returns startIndex null and
\* endIndex null.
C12_MissIsNullNull ==
  RangeMissed => op.ret = [startIndex |-> Null, endIndex |-> Null]

\* C12 is exercised: "D" looked up in a text that has headings A and B
C12_Witness ==
  /\ RangeMissed /\ op.heading = <<"D">>
  /\ CalledOn = JoinLines(<<LineA, LineText, LineSubB, LineText>>)
  /\ op.ret.startIndex = Null

\* C13: _sectionContent for a name that, once its leading #s are stripped,
\* no heading line of the text has, does not throw and returns the empty
\* text.
C13_AbsentGivesEmpty ==
  (/\ op.name = "sectionContent"
   /\ HeadingsNamed(CalledOn, StripHashes(op.heading)) = {}) =>
    /\ ~op.threw
    /\ op.ret = <<>>

\* C13 is exercised: "D" extracted from a text that has headings and text
C13_Witness ==
  /\ op.name = "sectionContent" /\ op.heading = <<"D">>
  /\ CalledOn = JoinLines(<<LineText, LineA, LineText, LineC>>)
  /\ op.ret = <<>>

(***************************************************************************)
(* _replaceContent on a buffered text of a few lines                       *)
(***************************************************************************)
\* values of newContent: with and without a final newline
ReplaceContents == {<<"x">>, <<"x", NL>>}

\* the buffer holds the text under note-2 and another note's text
InitReplace ==
  /\ useLocalNoteContents = TRUE
  /\ \E doc \in SectionDocs :
       noteContents = <<[uuid |-> PersistedUuid(2), content |-> doc],
                        [uuid |-> LocalUuid(1), content |-> DocPreamble]>>
  /\ persisted = {}
  /\ op = NoOp
  /\ calls = <<>>
  /\ edits = 0
  /\ run = NoRun
  /\ depths = <<>>
  /\ leafNodes = <<>>

\* one call of _replaceContent(note, sectionHeadingText, newContent) with
\* buffering on, for a buffered note: lines 46-54
ReplaceSection ==
  /\ op = NoOp
  /\ \E uuid \in {PersistedUuid(2), LocalUuid(1)},
        sectionHeadingText \in SectionNames, newContent \in ReplaceContents :
       ReplaceInRange(uuid, sectionHeadingText, newContent, Get(noteContents, uuid),
                      _sectionRange(Get(noteContents, uuid), sectionHeadingText))
  /\ UNCHANGED <<useLocalNoteContents, persisted, depths, leafNodes>>

NextReplace == ReplaceSection

SpecReplace == InitReplace /\ [][NextReplace]_vars

(***************************************************************************)
(* Properties of _replaceContent                                           *)
(***************************************************************************)
\* the step is a _replaceContent with buffering on that did not throw
ReplaceSucceeds == useLocalNoteContents /\ op'.name = "replaceContent" /\ ~op'.threw

\* the last n characters of s
Suffix(s, n) == SubSeq(s, Len(s) - n + 1, Len(s))

\* C14: a _replaceContent that succeeds with buffering on issues no call,
\* leaves every other entry of the buffer as it was, and the new text of
\* the note is the old text up to the start of the located range, a newline
\* and the new content, and the old text from the end of the range on.
C14_OnlyRangeChanges ==
  [][ReplaceSucceeds =>
       /\ calls' = <<>>
       /\ Keys(noteContents') = Keys(noteContents)
       /\ \A i \in 1..Len(noteContents) :
            noteContents[i].uuid # op'.uuid => noteContents'[i] = noteContents[i]
       /\ LET old == Get(noteContents, op'.uuid)
              new == Get(noteContents', op'.uuid)
              range == ReplaceRange(old, op'.heading)
              prefix == Slice(old, 0, range.startIndex)
              suffix == SliceFrom(old, range.endIndex)
          IN  /\ range.startIndex # Null
              /\ Len(new) = Len(prefix) + 1 + Len(op'.content) + Len(suffix)
              /\ SubSeq(new, 1, Len(prefix)) = prefix
              /\ Suffix(new, Len(suffix)) = suffix
              /\ SubSeq(new, Len(prefix) + 1, Len(new) - Len(suffix))
                   = <<NL>> \o op'.content]_vars

\* C14 is exercised: section A of "# A\nx\n## B\n# C" under note-2 has been
\* replaced, text follows the range and another note is buffered
C14_Witness ==
  /\ op.name = "replaceContent" /\ ~op.threw
  /\ op.uuid = PersistedUuid(2) /\ op.heading = <<"A">> /\ op.content = <<"x", NL>>
  /\ Get(noteContents, PersistedUuid(2))
       = <<"#", " ", "A", NL, NL, "x", NL, "#", " ", "C">>
  /\ Has(noteContents, LocalUuid(1))

\* the heading line matched by m in old is a heading line of new, shift
\* characters further on, with the same text and level
StillHeading(old, m, new, shift) ==
  \E i \in 1..Len(MatchAll(new)) :
    /\ MatchAll(new)[i].index = m.index + shift
    /\ MatchGroup(new, MatchAll(new)[i]) = MatchGroup(old, m)
    /\ MatchLevel(new, MatchAll(new)[i]) = MatchLevel(old, m)

\* the k-th heading line of text is the first with its trimmed text, and
\* that text does not start with a #, so that _sectionContent called with its
\* text addresses it
AddressedByText(text, k) ==
  /\ \A i \in HeadingsNamed(text, MatchGroup(text, MatchAll(text)[k])) : k <= i
  /\ StripHashes(MatchGroup(text, MatchAll(text)[k])) = MatchGroup(text, MatchAll(text)[k])

\* the offset of the first heading line of text whose trimmed text is name
HeadingStart(text, name) ==
  MatchAll(text)[CHOOSE k \in HeadingsNamed(text, name) :
                   \A i \in HeadingsNamed(text, name) : k <= i].index

\* what _sectionContent returns for text and a heading text
ContentNamed(text, name) == _sectionContent(text, Str(name))

\* C15: after a _replaceContent that succeeds, with new content that has no
\* heading line, every heading line of the old text outside the replaced
\* range is a heading line of the new text with the same text and level, and
\* _sectionContent gives the content it gave before for each of them that
\* does not contain the range (and that its text addresses).
C15_OthersUndisturbed ==
  [][(ReplaceSucceeds /\ MatchAll(op'.content) = <<>>) =>
       LET old == Get(noteContents, op'.uuid)
           new == Get(noteContents', op'.uuid)
           range == ReplaceRange(old, op'.heading)
           ms == MatchAll(old)
       IN  \A j \in 1..Len(ms) :
             /\ ms[j].index < range.startIndex => StillHeading(old, ms[j], new, 0)
             /\ ms[j].index >= range.endIndex =>
                  StillHeading(old, ms[j], new, Len(new) - Len(old))
             /\ (/\ AddressedByText(old, j)
                 /\ \/ ms[j].index >= range.endIndex
                    \/ ReplaceRange(old, MatchGroup(old, ms[j])).endIndex
                         <= HeadingStart(old, op'.heading)) =>
                  ContentNamed(new, MatchGroup(old, ms[j]))
                    = ContentNamed(old, MatchGroup(old, ms[j]))]_vars

\* C15 for new content that ends with a newline
C15_Terminated ==
  [][(ReplaceSucceeds /\ MatchAll(op'.content) = <<>>
        /\ op'.content[Len(op'.content)] = NL) =>
       LET old == Get(noteContents, op'.uuid)
           new == Get(noteContents', op'.uuid)
           range == ReplaceRange(old, op'.heading)
           ms == MatchAll(old)
       IN  \A j \in 1..Len(ms) :
             /\ ms[j].index < range.startIndex => StillHeading(old, ms[j], new, 0)
             /\ ms[j].index >= range.endIndex =>
                  StillHeading(old, ms[j], new, Len(new) - Len(old))
             /\ (/\ AddressedByText(old, j)
                 /\ \/ ms[j].index >= range.endIndex
                    \/ ReplaceRange(old, MatchGroup(old, ms[j])).endIndex
                         <= HeadingStart(old, op'.heading)) =>
                  ContentNamed(new, MatchGroup(old, ms[j]))
                    = ContentNamed(old, MatchGroup(old, ms[j]))]_vars

(***************************************************************************)
(* Properties of the ranges of all the headings of a text                  *)
(***************************************************************************)
\* what _sectionRange returns for the text of the k-th heading line of text
RangeOfHeading(text, k) == _sectionRange(text, MatchGroup(text, MatchAll(text)[k]))

LevelOfHeading(text, k) == MatchLevel(text, MatchAll(text)[k])

\* two ranges have an offset in common
Overlap(r1, r2) ==
  /\ r1.startIndex < r2.endIndex
  /\ r2.startIndex < r1.endIndex
  /\ r1.startIndex < r1.endIndex
  /\ r2.startIndex < r2.endIndex

\* the positions of the heading lines of level 1
TopLevel(text) == {k \in 1..Len(MatchAll(text)) : LevelOfHeading(text, k) = 1}

\* offset p lies in the k-th heading line or in the range of that heading
InLineOrRange(text, k, p) ==
  MatchAll(text)[k].index <= p /\ p < RangeOfHeading(text, k).endIndex

\* no two heading lines of text have the same trimmed text
DistinctTexts(text) ==
  \A i, j \in 1..Len(MatchAll(text)) :
    Trim(MatchGroup(text, MatchAll(text)[i])) = Trim(MatchGroup(text, MatchAll(text)[j]))
      => i = j

\* _sectionRange has been called on the text with the name of a heading
RangesAsked == op.name = "sectionRange" /\ op.heading = <<"A">>

\* C16 as stated: the ranges of two different headings, one at the same or
\* a shallower level than the other, never overlap, and the level-1 ranges
\* with their heading lines cover the whole text.
C16_DisjointAndCovering ==
  RangesAsked =>
    /\ \A i, j \in 1..Len(MatchAll(CalledOn)) :
         (i # j /\ LevelOfHeading(CalledOn, j) <= LevelOfHeading(CalledOn, i)) =>
           ~Overlap(RangeOfHeading(CalledOn, i), RangeOfHeading(CalledOn, j))
    /\ \A p \in 0..(Len(CalledOn) - 1) :
         \E k \in TopLevel(CalledOn) : InLineOrRange(CalledOn, k, p)

\* C16, amended: in a text whose headings have different trimmed texts, the
\* range of a heading does not overlap the range of a later heading of the
\* same or a shallower level, and the level-1 ranges with their heading
\* lines cover the text from the first level-1 heading line to the end.
C16_LaterDisjointCoveredFromFirst ==
  (RangesAsked /\ DistinctTexts(CalledOn)) =>
    /\ \A i, j \in 1..Len(MatchAll(CalledOn)) :
         (i < j /\ LevelOfHeading(CalledOn, j) <= LevelOfHeading(CalledOn, i)) =>
           ~Overlap(RangeOfHeading(CalledOn, i), RangeOfHeading(CalledOn, j))
    /\ \A p \in 0..(Len(CalledOn) - 1) :
         (\E k \in TopLevel(CalledOn) : MatchAll(CalledOn)[k].index <= p) =>
           \E k \in TopLevel(CalledOn) : InLineOrRange(CalledOn, k, p)

\* C16 is exercised: _sectionRange was called on "x\n# A\n## B\nx", which
\* has text before the first heading and a heading nested in a level-1 one
C16_Witness ==
  /\ RangesAsked
  /\ CalledOn = JoinLines(<<LineText, LineA, LineSubB, LineText>>)
  /\ DistinctTexts(CalledOn)
  /\ Overlap(RangeOfHeading(CalledOn, 1), RangeOfHeading(CalledOn, 2))

(***************************************************************************)
(* What triggers a flush                                                   *)
(***************************************************************************)
\* C17: an operation other than _flushLocalNotes itself runs a flush only if
\* it is a read, with buffering on, of a note that is not buffered while the
\* buffer holds at least maxBookLimitInMemory entries; a read, replace or
\* insert on a note that is buffered runs no flush, issues no
\* app.notes.find and no app.replaceNoteContent, and leaves every key of the
\* buffer in place.
C17_FlushOnlyOnAdmission ==
  [][(OperationStep /\ op'.name \in {"noteContent", "replaceContent", "insertContent"}) =>
       /\ op'.flushes = 1 =>
            /\ op'.name = "noteContent"
            /\ useLocalNoteContents
            /\ ~Has(noteContents, op'.uuid)
            /\ Len(noteContents) >= maxBookLimitInMemory
       /\ Has(noteContents, op'.uuid) =>
            /\ op'.flushes = 0
            /\ \A j \in 1..Len(calls') : ~IsFind(calls'[j]) /\ ~IsWrite(calls'[j])
            /\ Keys(noteContents') = Keys(noteContents)]_vars

\* C17 is exercised: a section of a buffered note was replaced while the
\* buffer was full, and no flush ran
C17_Witness ==
  /\ useLocalNoteContents
  /\ op.name = "replaceContent" /\ ~op.threw
  /\ Len(noteContents) >= maxBookLimitInMemory
  /\ op.flushes = 0

(***************************************************************************)
(* Flush, re-seed, flush again                                             *)
(***************************************************************************)
\* this._noteContents[uuid] = content, done by the caller; op keeps the seed
\* and counts the flushes that have run on it
InitReflush ==
  /\ useLocalNoteContents = TRUE
  /\ persisted \in SUBSET LocalNotes
  /\ \E uuid \in Uuids, content \in FlushDocs :
       /\ IsHandle(uuid)
       /\ noteContents = Put(<<>>, uuid, content)
       /\ op = Op("seed", uuid, <<>>, content, FALSE, FALSE, <<>>, 0)
  /\ calls = <<>>
  /\ edits = 0
  /\ run = NoRun
  /\ depths = <<>>
  /\ leafNodes = <<>>

\* the state after the flush of the seeded buffer ended as flushed
SeedFlushed(flushed) ==
  /\ noteContents' = flushed.noteContents
  /\ calls' = flushed.calls
  /\ op' = Op("flushLocalNotes", op.uuid, <<>>, op.content, FALSE, flushed.threw,
              <<>>, op.flushes + 1)

\* _flushLocalNotes(app) on the seeded buffer, lines 142-174
FlushSeeded ==
  /\ op.name = "seed"
  /\ \E failAt \in 0..Len(_flushLocalNotes(noteContents, 0).calls) :
       SeedFlushed(_flushLocalNotes(noteContents, failAt))
  /\ UNCHANGED <<useLocalNoteContents, persisted, edits, run, depths, leafNodes>>

\* after the first flush the caller stores the same text under the same
\* uuid again; calls still holds what the first flush issued
Reseed ==
  /\ op.name = "flushLocalNotes" /\ op.flushes = 1
  /\ noteContents' = Put(noteContents, op.uuid, op.content)
  /\ op' = Op("seed", op.uuid, <<>>, op.content, FALSE, op.threw, <<>>, op.flushes)
  /\ UNCHANGED <<useLocalNoteContents, persisted, calls, edits, run, depths, leafNodes>>

NextReflush ==
  \/ \E n \in Notes : Persist(n)
  \/ FlushSeeded
  \/ Reseed

SpecReflush == InitReflush /\ [][NextReflush]_vars

\* the second flush of the seed has completed in the next state, the first
\* one had completed too, and calls holds what the first one issued
SecondFlushCompletes ==
  /\ op.name = "seed" /\ op.flushes = 1 /\ ~op.threw
  /\ op'.name = "flushLocalNotes" /\ ~op'.threw

AfterEdit(uuid, before) ==
  IF op'.uuid = uuid /\ op'.name = "replaceContent"
       /\ Truthy(ReplaceRange(before, op'.heading).startIndex)
    THEN RevisedContent(before, ReplaceRange(before, op'.heading), op'.content)
  ELSE IF op'.uuid = uuid /\ op'.name = "insertContent"
    THEN InsertedContent(before, op'.content, op'.atEnd)
  ELSE before

\* with buffering on, note.content is called only by a read of a note that
\* is not buffered, and a read of a buffered note returns its buffered text
\* and issues no call
FetchOnlyOnMiss ==
  /\ \A j \in 1..Len(calls') :
       IsFetch(calls'[j]) =>
         /\ op'.name = "noteContent"
         /\ ~Has(noteContents, op'.uuid)
         /\ calls'[j].uuid = op'.uuid
  /\ (op'.name = "noteContent" /\ Has(noteContents, op'.uuid)) =>
       /\ calls' = <<>>
       /\ ~op'.threw
       /\ op'.ret = Get(noteContents, op'.uuid)

\* C19 as stated: with buffering on, note.content is called only by a read
\* of a note that is not buffered; a read of a buffered note returns the
\* buffered text and issues no call; and as long as a uuid stays buffered
\* its text changes only by the replaces and inserts made on it, each applied
\* to the text the one before left.
C19_ReadsReflectEdits ==
  [][(OperationStep /\ useLocalNoteContents) =>
       /\ FetchOnlyOnMiss
       /\ \A uuid \in Uuids :
            (Has(noteContents, uuid) /\ Has(noteContents', uuid)) =>
              Get(noteContents', uuid) = AfterEdit(uuid, Get(noteContents, uuid))]_vars

\* C19 for the operations that run no flush; it holds
C19_ReadsReflectEditsNoFlush ==
  [][(OperationStep /\ useLocalNoteContents) =>
       /\ FetchOnlyOnMiss
       /\ op'.flushes = 0 =>
            \A uuid \in Uuids :
              (Has(noteContents, uuid) /\ Has(noteContents', uuid)) =>
                Get(noteContents', uuid) = AfterEdit(uuid, Get(noteContents, uuid))]_vars

(***************************************************************************)
(* What a flush writes of a buffered text                                  *)
(***************************************************************************)
\* the offsets at which a non-empty line of text starts
LineStarts(text) ==
  {p \in 0..(Len(text) - 1) : IsLineStart(text, p) /\ text[p + 1] # NL}

\* the line of text starting at offset p is written by the calls cs issued
\* for the entry uuid: it is a heading line and the write of the heading
\* lines carries those of text, or it lies in the range of a section whose
\* content a section write carries
LineWritten(cs, uuid, text, p) ==
  \/ /\ \E k \in 1..Len(MatchAll(text)) : MatchAll(text)[k].index = p
     /\ \E j \in SegmentOf(cs, FindPosition(cs, uuid)) :
          /\ IsTocWrite(cs[j])
          /\ cs[j].content = TableOfContents(_getHeadingsFromMarkdown(text))
  \/ \E j \in SegmentOf(cs, FindPosition(cs, uuid)) :
       /\ IsSectionWrite(cs[j])
       /\ cs[j].content = _sectionContent(text, cs[j].section)
       /\ ReplaceRange(text, cs[j].section.heading.text).startIndex <= p
       /\ p < ReplaceRange(text, cs[j].section.heading.text).endIndex

\* C20: in a flush that completes, every non-empty line of the text of every
\* buffered entry the flush looked up is a heading line carried by the write
\* of the heading lines, or lies in the content of one of the section writes
\* issued for that entry; this includes the lines before the first heading.
C20_NoTextLost ==
  [][(OperationStep /\ op'.name = "flushLocalNotes" /\ ~op'.threw) =>
       \A i \in 1..Len(noteContents) :
         FindPosition(calls', noteContents[i].uuid) > 0 =>
           \A p \in LineStarts(noteContents[i].content) :
             LineWritten(calls', noteContents[i].uuid, noteContents[i].content, p)]_vars

\* C20 for the texts whose lines all follow a heading that has no deeper
\* heading after it; it holds
C20_NoTextLostAfterFirstHeading ==
  [][(OperationStep /\ op'.name = "flushLocalNotes" /\ ~op'.threw) =>
       \A i \in 1..Len(noteContents) :
         (/\ FindPosition(calls', noteContents[i].uuid) > 0
          /\ noteContents[i].content \notin {DocPreamble, DocParentText}) =>
           \A p \in LineStarts(noteContents[i].content) :
             LineWritten(calls', noteContents[i].uuid, noteContents[i].content, p)]_vars

====
